---- MODULE Spec2Model ----
(***************************************************************************)
(* Model of nutriTrack's client-side synchronisation code: the App         *)
(* component of src/App.tsx (local load/save effects, the two migrations,  *)
(* the auth listener) over the Firestore adapter of                        *)
(* src/services/firestoreService.ts.                                       *)
(*                                                                         *)
(* JavaScript is single-threaded: a handler runs without interruption up   *)
(* to its next `await`, so every action below is one such synchronous      *)
(* segment, including the React effects its state updates trigger.  A      *)
(* store call is issued at the end of one segment and its completion       *)
(* (success or rejection) starts the next one.                             *)
(***************************************************************************)
EXTENDS Integers, Sequences, FiniteSets, TLC

\* ------------------------------------------------------------------ bounds
\* Each specification below fixes how many identity callbacks it delivers, how
\* many handlers may be suspended at once, how far the clock advances and how
\* often the page reloads; the numbers are defined with the specifications.

\* ------------------------------------------------------------------ domains
None == "none"
AnonUid == "A"                       \* the uid of the anonymous identity
GuestUid == "G"                      \* the uid of a later anonymous sign-in
Anons == {AnonUid, GuestUid}         \* the uids whose user.isAnonymous is true
Uids == {"A", "G", "U", "V"}
DayKeys == {"foodLog-D1", "foodLog-D2"}
Today == "foodLog-D2"                \* the key of `new Date()` (App.tsx:30)
PendingKey == "pendingAnonUid"
\* localStorage.key(i) enumerates the stored keys in an order the browser fixes
KeyOrder == <<"foodLog-D1", "foodLog-D2", "pendingAnonUid">>
OldTs == 1                           \* the timestamp of records stored before the session
FirstClock == OldTs + 1              \* Date.now() when the session starts

Rec(n, t, i) == [name |-> n, ts |-> t, id |-> i]
Absent == [kind |-> "absent", items |-> <<>>]
Malformed == [kind |-> "bad", items |-> <<>>]
Stored(items) == [kind |-> "ok", items |-> items]

VARIABLES
    authUser,        \* auth.currentUser: None or a uid
    selectedDate,    \* key of the selected day (formattedDate)
    loggedFoods,     \* the working list (React state)
    foodLog,         \* localStorage: [DayKeys -> bucket value]
    pendingAnonUid,  \* localStorage.pendingAnonUid: None or a uid
    remote,          \* Firestore: [Uids -> set of documents]
    nextId,          \* next document id Firestore assigns
    lastMigratedUid, \* lastMigratedUid.current
    unsubRef,        \* unsubRef.current: None or the uid its subscription is on
    subs,            \* active onSnapshot listeners: [Uids -> Nat]
    handlers,        \* in-flight auth handlers: [1..slots -> handler record]
    now,             \* Date.now()
    authCount,       \* identity callbacks delivered so far
    reloads,         \* reloads so far
    bodyRuns,        \* history: [Uids -> times the migration body started this session]
    appendLog,       \* history: addLogEntry calls of migrations, in issue order
    passLog,         \* history: completed Local->Remote passes
    anonLog,         \* history: ended Anonymous->Permanent passes
    subLog,          \* history: subscriptions opened this session, in order
    loadFailed,      \* history: day keys whose load found an unparseable value
    adder,           \* the in-flight handleAddFood invocation
    deletes,         \* the deleteLogEntry calls of handleRemoveFood in flight
    view,            \* the records MacroTracker was last rendered with
    ghost            \* history: identity of each callback, the last snapshot
                     \* delivered, the addLogEntry calls of handleAddFood

vars == <<authUser, selectedDate, loggedFoods, foodLog, pendingAnonUid, remote,
          nextId, lastMigratedUid, unsubRef, subs, handlers, now, authCount,
          reloads, bodyRuns, appendLog, passLog, anonLog, subLog, loadFailed,
          adder, deletes, view, ghost>>

IdleH == [b0 |-> {}, n0 |-> 0, pc |-> "idle", uid |-> None, hid |-> 0, rs |-> {}, i |-> 0, key |-> None,
          arr |-> <<>>, j |-> 0, ts |-> 0, ktr |-> <<>>, anon |-> None,
          ae |-> <<>>, k |-> 0, call |-> 0,
          \* history of the pass: buckets parsed, buckets left by a failed append,
          \* buckets skipped as unparseable, bucket visits begun and ended by a failure
          parsed |-> {}, failed |-> {}, bad |-> {}, visits |-> 0, fails |-> 0,
          \* history of the handler: its reads that were rejected, the bucket
          \* visits that marked their bucket with the array they parsed
          lf |-> {}, mk |-> {}]

\* handleAddFood's locals: the uid and the selected date it captured, the items
\* and its position in them; n counts the invocations
IdleAdd == [pc |-> "idle", uid |-> None, items |-> <<>>, j |-> 0, date |-> None,
            call |-> 0, n |-> 0]
NoView == [shown |-> FALSE, list |-> <<>>, date |-> 0, items |-> <<>>]
NoPush == [seen |-> FALSE, uid |-> None, user |-> None, before |-> <<>>, payload |-> <<>>,
           bucket |-> Absent, saved |-> Absent]
NoHistory == [authLog |-> <<>>, push |-> NoPush, adds |-> <<>>, removes |-> <<>>,
              rejected |-> {}, error |-> [seen |-> FALSE, uid |-> None, before |-> <<>>]]

\* ------------------------------------------------------------------ helpers
Range(s) == {s[n] : n \in 1..Len(s)}

\* normalizeTimestamp: a missing (0) value reads as the current time
normalizeTimestamp(val, t) == IF val = 0 THEN t ELSE val

\* The larger of two documents in the query's order (timestamp, then id)
DocBefore(a, b) == a.ts > b.ts \/ (a.ts = b.ts /\ a.id > b.id)

RECURSIVE SortDesc(_)
SortDesc(S) ==
    IF S = {} THEN <<>>
    ELSE LET m == CHOOSE x \in S : \A y \in S \ {x} : DocBefore(x, y)
         IN <<m>> \o SortDesc(S \ {m})

\* getLogEntries / the snapshot mapping: every document, timestamp descending
getLogEntries(docs, t) ==
    SortDesc({Rec(d.name, normalizeTimestamp(d.ts, t), d.id) : d \in docs})

\* `${name}::${timestamp || ''}`: a missing timestamp gives the empty suffix (0)
RemoteKey(e) == <<e.name, e.ts>>
\* item.timestamp || Date.now()
LocalTs(item, t) == IF item.ts # 0 THEN item.ts ELSE t
\* `${item.name}::${ts}`
LocalKey(item, t) == <<item.name, LocalTs(item, t)>>

\* The keys localStorage holds, in key(i) order
RECURSIVE KeysFrom(_, _, _)
KeysFrom(fl, pend, n) ==
    IF n > Len(KeyOrder) THEN <<>>
    ELSE LET k == KeyOrder[n]
             present == IF k = PendingKey THEN pend # None ELSE fl[k].kind # "absent"
         IN (IF present THEN <<k>> ELSE <<>>) \o KeysFrom(fl, pend, n + 1)
LsKeys(fl, pend) == KeysFrom(fl, pend, 1)

\* The save effect: localStorage.setItem(`foodLog-${formattedDate}`, JSON.stringify(loggedFoods))
SaveEffect(fl, date, list) == [fl EXCEPT ![date] = Stored(list)]

\* The load effect with no current user: the bucket's list, [] when absent or unparseable
LoadList(fl, date) == IF fl[date].kind = "ok" THEN fl[date].items ELSE <<>>
\* ------------------------------------------------------------------ the handler's synchronous segments
\* The values a segment reads and writes besides its own handler record.
Ctx == [fl |-> foodLog, lm |-> lastMigratedUid, pend |-> pendingAnonUid,
        ur |-> unsubRef, sb |-> subs, pl |-> passLog, an |-> anonLog, sl |-> subLog,
        br |-> bodyRuns, al |-> appendLog, rem |-> remote]

\* unsubRef.current(): the listener the handle belongs to stops; a second call does nothing
Unsubscribe_Noop(sb, ur) == sb
Unsubscribe(sb, ur) ==
    IF ur # None /\ sb[ur] > 0 THEN [sb EXCEPT ![ur] = @ - 1] ELSE sb

\* App.tsx:179-185: cancel the stored subscription, null the handle, subscribe, store
Subscribe_NoTeardown(h, c) ==
    [h |-> IdleH,
     c |-> [c EXCEPT !.sb = [c.sb EXCEPT ![h.uid] = @ + 1],
                     !.ur = h.uid,
                     !.sl = Append(@, [uid |-> h.uid, hid |-> h.hid])]]
Subscribe(h, c) ==
    [h |-> IdleH,
     c |-> [c EXCEPT !.sb = [Unsubscribe(c.sb, c.ur) EXCEPT ![h.uid] = @ + 1],
                     !.ur = h.uid,
                     !.sl = Append(@, [uid |-> h.uid, hid |-> h.hid])]]

\* The issue of one addLogEntry call by a migration; `more` counts the records
\* after it in the same array whose key is not in the remote set, `dup` tells
\* that the target log held the key when the Anonymous->Permanent pass started,
\* `cur` the identity that is current when the call settles
Call(h, src, idx, name, ts, more) ==
    [hid |-> h.hid, uid |-> h.uid, src |-> src, visit |-> h.visits, idx |-> idx,
     name |-> name, ts |-> ts, more |-> more, dup |-> <<name, ts>> \in h.b0,
     res |-> "pending", cur |-> "unresolved"]

\* App.tsx:136-140: the end of migrateAnonFirestoreToUid; the marker is removed
\* only when the loop ran to its end
AnonEnd(h, c, clear) ==
    LET done == [hid |-> h.hid, uid |-> h.uid, anon |-> h.anon, ae |-> h.ae, lf |-> h.lf,
                 rs |-> IF h.ae = <<>> THEN {} ELSE h.rs, cleared |-> clear,
                 marker |-> IF clear THEN None ELSE c.pend,
                 n0 |-> h.n0, n1 |-> Cardinality(c.rem[h.uid])]
        c1 == [c EXCEPT !.an = Append(@, done)]
    IN Subscribe(h, IF clear THEN [c1 EXCEPT !.pend = None] ELSE c1)

\* App.tsx:120: `if (!anonEntries.length) return;` leaves before the marker's removal
AnonEmpty_ClearsMarker(h, c) == AnonEnd(h, c, TRUE)
AnonEmpty(h, c) == AnonEnd(h, c, FALSE)

\* App.tsx:138-140: a rejected addLogEntry is caught outside the loop, after
\* the marker's removal at line 137, which is skipped
AnonFail_ClearsMarker(h, c) == AnonEnd(h, c, TRUE)
AnonFail(h, c) == AnonEnd(h, c, FALSE)

\* App.tsx:123-135: the loop over anonEntries, up to its next addLogEntry
ScanAnon_NoDedup(h, c, k) ==
    IF k > Len(h.ae) THEN AnonEnd(h, c, TRUE)
    ELSE [h |-> [h EXCEPT !.pc = "appendB", !.k = k, !.ts = h.ae[k].ts,
                          !.call = Len(c.al) + 1],
          c |-> [c EXCEPT !.al = Append(@, Call(h, "anon", k, h.ae[k].name, h.ae[k].ts, 0))]]
RECURSIVE ScanAnon(_, _, _)
ScanAnon(h, c, k) ==
    IF k > Len(h.ae) THEN AnonEnd(h, c, TRUE)
    ELSE IF RemoteKey(h.ae[k]) \in h.rs THEN ScanAnon(h, c, k + 1)
    ELSE [h |-> [h EXCEPT !.pc = "appendB", !.k = k, !.ts = h.ae[k].ts,
                          !.call = Len(c.al) + 1],
          c |-> [c EXCEPT !.al = Append(@, Call(h, "anon", k, h.ae[k].name, h.ae[k].ts,
                            Cardinality({m \in k+1..Len(h.ae) : RemoteKey(h.ae[m]) \notin h.rs})))]]

\* App.tsx:169-176 with the guard of App.tsx:117
AnonCheck(h, c) ==
    IF c.pend # None /\ c.pend # h.uid
    THEN [h |-> [h EXCEPT !.pc = "listA", !.anon = c.pend,
                          !.b0 = {RemoteKey(e) : e \in c.rem[h.uid]},
                          !.n0 = Cardinality(c.rem[h.uid])], c |-> c]
    ELSE Subscribe(h, c)

\* App.tsx:105-109: remove the marked buckets, set the watermark
LocalEnd_UnlessSkipped(h, c) ==
    LET fl2 == [k \in DayKeys |-> IF k \in Range(h.ktr) THEN Absent ELSE c.fl[k]]
        done == [hid |-> h.hid, uid |-> h.uid, parsed |-> h.parsed,
                 failed |-> h.failed, bad |-> h.bad, visits |-> h.visits,
                 fails |-> h.fails, marks |-> Len(h.ktr), removed |-> Range(h.ktr),
                 rs |-> h.rs, mk |-> h.mk, after |-> fl2,
                 stillBad |-> {k \in DayKeys : fl2[k].kind = "bad"},
                 absentAfter |-> {k \in DayKeys : fl2[k].kind = "absent"}]
    IN AnonCheck(h, [c EXCEPT !.fl = fl2, !.pl = Append(@, done),
                              !.lm = IF h.failed = {} /\ h.bad = {} THEN h.uid ELSE @])
LocalEnd(h, c) ==
    LET fl2 == [k \in DayKeys |-> IF k \in Range(h.ktr) THEN Absent ELSE c.fl[k]]
        done == [hid |-> h.hid, uid |-> h.uid, parsed |-> h.parsed,
                 failed |-> h.failed, bad |-> h.bad, visits |-> h.visits,
                 fails |-> h.fails, marks |-> Len(h.ktr), removed |-> Range(h.ktr),
                 rs |-> h.rs, mk |-> h.mk, after |-> fl2,
                 stillBad |-> {k \in DayKeys : fl2[k].kind = "bad"},
                 absentAfter |-> {k \in DayKeys : fl2[k].kind = "absent"}]
    IN AnonCheck(h, [c EXCEPT !.fl = fl2, !.lm = h.uid, !.pl = Append(@, done)])

\* App.tsx:79-103: the loop over localStorage keys, up to its next addLogEntry.
\* NextKey is the head of the outer loop at index i (1-based), ScanItems the
\* inner loop at position j of the parsed array.
RECURSIVE NextKey(_, _, _, _)
RECURSIVE ScanItems(_, _, _, _)
NextKey(h, c, i, t) ==
    LET keys == LsKeys(c.fl, c.pend) IN
    IF i > Len(keys) THEN LocalEnd(h, c)
    ELSE IF keys[i] \notin DayKeys THEN NextKey(h, c, i + 1, t)
    ELSE IF c.fl[keys[i]].kind = "bad"
         THEN NextKey([h EXCEPT !.bad = @ \cup {keys[i]}], c, i + 1, t)
    ELSE ScanItems([h EXCEPT !.i = i, !.key = keys[i], !.arr = c.fl[keys[i]].items,
                             !.parsed = @ \cup {keys[i]}, !.visits = @ + 1,
                             !.ts = 0, !.j = 0], c, 1, t)
ScanItems(h, c, j, t) ==
    IF j > Len(h.arr)
    THEN NextKey([h EXCEPT !.ktr = Append(@, h.key),
                           !.mk = @ \cup {[key |-> h.key, visit |-> h.visits, arr |-> h.arr]}],
                 c, h.i + 1, t)
    ELSE IF LocalKey(h.arr[j], t) \in h.rs THEN ScanItems(h, c, j + 1, t)
    ELSE [h |-> [h EXCEPT !.pc = "append", !.j = j, !.ts = LocalTs(h.arr[j], t),
                          !.call = Len(c.al) + 1],
          c |-> [c EXCEPT !.al = Append(@, Call(h, h.key, j, h.arr[j].name, LocalTs(h.arr[j], t),
                            Cardinality({m \in j+1..Len(h.arr) : LocalKey(h.arr[m], t) \notin h.rs})))]]

\* App.tsx:100-102: a rejected addLogEntry leaves the bucket's try block; the
\* bucket is not marked and the loop over keys goes on with the next index
FailResume_Stops(h, c, t) == [h |-> IdleH, c |-> c]
FailResume_Continue(h, c, t) ==
    ScanItems([h EXCEPT !.failed = @ \cup {h.key}, !.fails = @ + 1], c, h.j + 1, t)
FailResume_MarkRemoved(h, c, t) ==
    NextKey([h EXCEPT !.failed = @ \cup {h.key}, !.fails = @ + 1,
                      !.ktr = Append(@, h.key)], c, h.i + 1, t)
FailResume(h, c, t) ==
    NextKey([h EXCEPT !.failed = @ \cup {h.key}, !.fails = @ + 1], c, h.i + 1, t)

\* App.tsx:67-71: the watermark check and the first call of the migration body
StartLocal_TeardownFirst(h, c) ==
    LET c1 == [c EXCEPT !.sb = Unsubscribe(c.sb, c.ur), !.ur = None] IN
    IF c1.lm = h.uid THEN AnonCheck(h, c1)
    ELSE [h |-> [h EXCEPT !.pc = "listU"], c |-> [c1 EXCEPT !.br[h.uid] = @ + 1]]
StartLocal(h, c) ==
    IF c.lm = h.uid THEN AnonCheck(h, c)
    ELSE [h |-> [h EXCEPT !.pc = "listU"], c |-> [c EXCEPT !.br[h.uid] = @ + 1]]

\* The state a segment of handler s leaves behind
Apply(s, r) ==
    /\ handlers' = [handlers EXCEPT ![s] = r.h]
    /\ foodLog' = r.c.fl
    /\ lastMigratedUid' = r.c.lm
    /\ pendingAnonUid' = r.c.pend
    /\ unsubRef' = r.c.ur
    /\ subs' = r.c.sb
    /\ passLog' = r.c.pl
    /\ anonLog' = r.c.an
    /\ subLog' = r.c.sl
    /\ bodyRuns' = r.c.br
    /\ appendLog' = r.c.al

\* The log a migration appends to: the uid parameter of the migration, fixed
\* when the handler started (App.tsx:89, 126), whoever is current by then
Target_CurrentUser(h) == authUser
Target(h) == h.uid

\* addLogEntry's write: addDoc stores the payload under a fresh document id
AddDoc(rem, uid, name, ts, id) == [rem EXCEPT ![uid] = @ \cup {Rec(name, ts, id)}]
Resolved(al, n, res) == [al EXCEPT ![n].res = res, ![n].cur = authUser]
\* ------------------------------------------------------------------ initial states
\* The mount effects (App.tsx:42-64) with no current user: the working list is
\* loaded from today's bucket and the save effect writes it back.
Mounted(fl) == SaveEffect(fl, Today, LoadList(fl, Today))

NoSubs == [u \in Uids |-> 0]
NoRuns == [u \in Uids |-> 0]
NoDocs == [u \in Uids |-> {}]

\* A session starts from what earlier sessions left in the two durable stores.
InitWith(buckets, logs, markers, slots) ==
    /\ authUser = None
    /\ selectedDate = Today
    /\ \E fl \in buckets :
          /\ foodLog = Mounted(fl)
          /\ loggedFoods = LoadList(fl, Today)
          /\ loadFailed = IF fl[Today].kind = "bad" THEN {Today} ELSE {}
    /\ pendingAnonUid \in markers
    /\ remote \in logs
    /\ nextId = 1
    /\ lastMigratedUid = None
    /\ unsubRef = None
    /\ subs = NoSubs
    /\ handlers = [s \in 1..slots |-> IdleH]
    /\ now = FirstClock
    /\ authCount = 0
    /\ reloads = 0
    /\ bodyRuns = NoRuns
    /\ appendLog = <<>>
    /\ passLog = <<>>
    /\ anonLog = <<>>
    /\ adder = IdleAdd
    /\ deletes = {}
    /\ view = NoView
    /\ ghost = NoHistory
    /\ subLog = <<>>

\* ------------------------------------------------------------------ actions
Slots == DOMAIN handlers
FreeSlot ==
    CHOOSE s \in Slots : /\ handlers[s].pc = "idle"
                         /\ \A r \in Slots : r < s => handlers[r].pc # "idle"

\* App.tsx:145-162 and 186-193: the auth listener's first segment for `user`
Handle(user, maxAuth) ==
    /\ authCount < maxAuth
    /\ authUser' = user
    /\ authCount' = authCount + 1
    /\ pendingAnonUid' = IF user \in Anons THEN user ELSE pendingAnonUid
    /\ IF user # None
       THEN /\ \E s \in Slots : handlers[s].pc = "idle"
            /\ handlers' = [handlers EXCEPT ![FreeSlot] =
                               [IdleH EXCEPT !.pc = "profile", !.uid = user,
                                             !.hid = authCount + 1]]
            /\ UNCHANGED <<loggedFoods, foodLog, unsubRef, subs>>
       ELSE /\ subs' = Unsubscribe(subs, unsubRef)
            /\ unsubRef' = None
            /\ loggedFoods' = <<>>
            /\ foodLog' = SaveEffect(foodLog, selectedDate, <<>>)
            /\ UNCHANGED handlers
    /\ ghost' = [ghost EXCEPT !.authLog = Append(@, user)]
    /\ UNCHANGED <<deletes, adder, view, loadFailed, selectedDate, remote, nextId, lastMigratedUid, now, reloads,
                   bodyRuns, appendLog, passLog, anonLog, subLog>>

\* An identity transition: the callback fires for an identity other than the current one
AuthChanged(users, maxAuth) == \E user \in users : user # authUser /\ Handle(user, maxAuth)

\* A sign-in from the signed-out state (AuthPage, App.tsx:291-293), a sign-out
SignIn(users, maxAuth) == authUser = None /\ AuthChanged(users, maxAuth)
SignOut(maxAuth) == AuthChanged({None}, maxAuth)
\* A sign-out once the handler of the sign-in has finished
SettledSignOut(maxAuth) ==
    (\A s \in Slots : handlers[s].pc = "idle") /\ SignOut(maxAuth)

\* The callback fires again for the identity that is already current
AuthRefired(maxAuth) == authUser # None /\ Handle(authUser, maxAuth)

\* setUserProfile returns (App.tsx:158-165) and the migration starts
ProfileReturns ==
    \E s \in Slots :
    /\ handlers[s].pc = "profile"
    /\ Apply(s, StartLocal(handlers[s], Ctx))
    /\ UNCHANGED <<deletes, adder, ghost, view, loadFailed, authUser, selectedDate, loggedFoods, remote, nextId, now,
                   authCount, reloads>>

\* App.tsx:158-162: a rejected setUserProfile is caught and logged, and the
\* handler goes on with the migration
ProfileFailed_Blocks(h, c) == [h |-> IdleH, c |-> c]
ProfileFailed(h, c) == StartLocal(h, c)

\* setUserProfile rejects (firestoreService.ts:200-203 rethrows the error)
ProfileFails ==
    \E s \in Slots :
    /\ handlers[s].pc = "profile"
    /\ Apply(s, ProfileFailed(handlers[s], Ctx))
    /\ ghost' = [ghost EXCEPT !.rejected = @ \cup {handlers[s].hid}]
    /\ UNCHANGED <<deletes, adder, view, loadFailed, authUser, selectedDate, loggedFoods, remote,
                   nextId, now, authCount, reloads>>

\* getLogEntries(...).catch(() => []): the entries read, [] when the read is rejected
OrEmpty_Stale(ok, entries) == entries
OrEmpty(ok, entries) == IF ok THEN entries ELSE <<>>
Rejected(h, ok, read) == IF ok THEN h ELSE [h EXCEPT !.lf = @ \cup {read}]

\* getLogEntries(uid) returns, or rejects and `.catch(() => [])` gives [] (App.tsx:71-77)
ListDone(s, ok) ==
    /\ handlers[s].pc = "listU"
    /\ LET h == Rejected(handlers[s], ok, "listU")
           entries == OrEmpty(ok, getLogEntries(remote[h.uid], now))
           h1 == [h EXCEPT !.rs = {RemoteKey(e) : e \in Range(entries)}]
       IN Apply(s, NextKey(h1, Ctx, 1, now))
    /\ UNCHANGED <<deletes, adder, ghost, view, loadFailed, authUser, selectedDate, loggedFoods, remote, nextId, now,
                   authCount, reloads>>

ListReturns == \E s \in Slots : ListDone(s, TRUE)
ListFails == \E s \in Slots : ListDone(s, FALSE)

\* addLogEntry returns inside the bucket loop (App.tsx:89-99)
AppendReturns ==
    \E s \in Slots :
    /\ handlers[s].pc = "append"
    /\ LET h == handlers[s]
           c == [Ctx EXCEPT !.al = Resolved(@, h.call, "ok"),
                            !.rem = AddDoc(remote, Target(h), h.arr[h.j].name, h.ts, nextId)]
       IN /\ remote' = c.rem
          /\ nextId' = nextId + 1
          /\ Apply(s, ScanItems(h, c, h.j + 1, now))
    /\ UNCHANGED <<deletes, adder, ghost, view, loadFailed, authUser, selectedDate, loggedFoods, now, authCount, reloads>>

\* addLogEntry rejects inside the bucket loop: the catch of App.tsx:100-102
\* leaves the bucket's loop and the loop over keys goes on
AppendFails ==
    \E s \in Slots :
    /\ handlers[s].pc = "append"
    /\ LET h == handlers[s]
           c == [Ctx EXCEPT !.al = Resolved(@, h.call, "fail")]
       IN Apply(s, FailResume(h, c, now))
    /\ UNCHANGED <<deletes, adder, ghost, view, loadFailed, authUser, selectedDate, loggedFoods, remote, nextId, now,
                   authCount, reloads>>

\* getLogEntries(anonUid) returns or rejects (App.tsx:119-120)
AnonListDone(s, ok) ==
    /\ handlers[s].pc = "listA"
    /\ LET h == Rejected(handlers[s], ok, "listA")
           entries == OrEmpty(ok, getLogEntries(remote[h.anon], now))
       IN Apply(s, IF entries = <<>> THEN AnonEmpty(h, Ctx)
                   ELSE [h |-> [h EXCEPT !.pc = "listB", !.ae = entries], c |-> Ctx])
    /\ UNCHANGED <<deletes, adder, ghost, view, loadFailed, authUser, selectedDate, loggedFoods, remote, nextId, now,
                   authCount, reloads>>

AnonListReturns == \E s \in Slots : AnonListDone(s, TRUE)
AnonListFails == \E s \in Slots : AnonListDone(s, FALSE)

\* getLogEntries(newUid) returns or rejects (App.tsx:121-122)
NewListDone(s, ok) ==
    /\ handlers[s].pc = "listB"
    /\ LET h == Rejected(handlers[s], ok, "listB")
           entries == OrEmpty(ok, getLogEntries(remote[h.uid], now))
           h1 == [h EXCEPT !.rs = {RemoteKey(e) : e \in Range(entries)}]
       IN Apply(s, ScanAnon(h1, Ctx, 1))
    /\ UNCHANGED <<deletes, adder, ghost, view, loadFailed, authUser, selectedDate, loggedFoods, remote, nextId, now,
                   authCount, reloads>>

NewListReturns == \E s \in Slots : NewListDone(s, TRUE)
NewListFails == \E s \in Slots : NewListDone(s, FALSE)

\* addLogEntry returns inside the loop over anonEntries (App.tsx:126-135)
AnonAppendReturns ==
    \E s \in Slots :
    /\ handlers[s].pc = "appendB"
    /\ LET h == handlers[s]
           c == [Ctx EXCEPT !.al = Resolved(@, h.call, "ok"),
                            !.rem = AddDoc(remote, Target(h), h.ae[h.k].name, h.ts, nextId)]
       IN /\ remote' = c.rem
          /\ nextId' = nextId + 1
          /\ Apply(s, ScanAnon(h, c, h.k + 1))
    /\ UNCHANGED <<deletes, adder, ghost, view, loadFailed, authUser, selectedDate, loggedFoods, now, authCount, reloads>>

\* addLogEntry rejects inside the loop over anonEntries: the catch of
\* App.tsx:138-140 ends the migration
AnonAppendFails ==
    \E s \in Slots :
    /\ handlers[s].pc = "appendB"
    /\ LET h == handlers[s]
           c == [Ctx EXCEPT !.al = Resolved(@, h.call, "fail")]
       IN Apply(s, AnonFail(h, c))
    /\ UNCHANGED <<deletes, adder, ghost, view, loadFailed, authUser, selectedDate, loggedFoods, remote, nextId, now,
                   authCount, reloads>>

\* setLoggedFoods(entries): the payload becomes the working list (App.tsx:184)
Replace_Merge(list, entries) == list \o entries
Replace(list, entries) == entries

\* The removals whose deleteLogEntry has returned, marked with what the
\* snapshot of u's log that followed shows of their record
Seen(rs, u, list) ==
    [n \in 1..Len(rs) |->
        IF rs[n].res = "ok" /\ rs[n].user = u
        THEN [rs[n] EXCEPT !.after = IF \E e \in Range(list) : e.name \in rs[n].names
                                     THEN "shown" ELSE "gone"]
        ELSE rs[n]]

\* onSnapshot delivers the current documents of u to the callback of
\* App.tsx:183-185; the save effect follows the state update
Push ==
    \E u \in Uids :
    /\ subs[u] > 0
    /\ loggedFoods' = Replace(loggedFoods, getLogEntries(remote[u], now))
    /\ foodLog' = SaveEffect(foodLog, selectedDate, loggedFoods')
    /\ ghost' = [ghost EXCEPT !.push = [seen |-> TRUE, uid |-> u, user |-> authUser,
                                        before |-> loggedFoods,
                                        payload |-> getLogEntries(remote[u], now),
                                        bucket |-> foodLog[selectedDate],
                                        saved |-> foodLog'[selectedDate]],
                               !.removes = Seen(@, u, loggedFoods')]
    /\ UNCHANGED <<deletes, adder, view, loadFailed, authUser, selectedDate, pendingAnonUid, remote,
                   nextId, lastMigratedUid, unsubRef, subs, handlers, now, authCount,
                   reloads, bodyRuns, appendLog, passLog, anonLog, subLog>>

\* firestoreService.ts:159-162: the error callback of onSnapshot logs and calls
\* callback([])
ErrorPayload_KeepsList(list) == list
ErrorPayload(list) == <<>>

\* The listener on u's log fails: its error callback runs, once, since
\* Firestore ends a listener that reported an error; the callback of
\* App.tsx:183-185 sets the working list and the save effect follows
PushError ==
    \E u \in Uids :
    /\ subs[u] > 0
    /\ subs' = [subs EXCEPT ![u] = @ - 1]
    /\ loggedFoods' = Replace(loggedFoods, ErrorPayload(loggedFoods))
    /\ foodLog' = SaveEffect(foodLog, selectedDate, loggedFoods')
    /\ ghost' = [ghost EXCEPT !.error = [seen |-> TRUE, uid |-> u, before |-> loggedFoods]]
    /\ UNCHANGED <<deletes, adder, view, loadFailed, authUser, selectedDate, pendingAnonUid,
                   remote, nextId, lastMigratedUid, unsubRef, handlers, now, authCount,
                   reloads, bodyRuns, appendLog, passLog, anonLog, subLog>>

\* setSelectedDate(d) from the calendar, which is shown to a signed-in,
\* non-anonymous user only (App.tsx:257, 291, 319): the load effect leaves the
\* working list alone (App.tsx:46) and the save effect writes it to d's bucket
SelectDate ==
    \E d \in DayKeys :
    /\ authUser \notin {None} \cup Anons
    /\ d # selectedDate
    /\ selectedDate' = d
    /\ foodLog' = SaveEffect(foodLog, d, loggedFoods)
    /\ UNCHANGED <<deletes, adder, ghost, view, authUser, loggedFoods, loadFailed, pendingAnonUid, remote, nextId,
                   lastMigratedUid, unsubRef, subs, handlers, now, authCount, reloads,
                   bodyRuns, appendLog, passLog, anonLog, subLog>>

\* selectedDate.getTime(): the time of mounting for the initial date, a time
\* of the chosen day after a selection in the calendar
DateTs(d) == IF d = Today THEN FirstClock ELSE OldTs
\* (item as any).timestamp || selectedDate.getTime() || Date.now()  (App.tsx:224)
AddTs(item, d) == IF item.ts # 0 THEN item.ts ELSE DateTs(d)

\* setLoggedFoods(prev => [...prev, ...foodItems])  (App.tsx:211)
Optimistic_Deferred(list, items) == list
Optimistic(list, items) == list \o items

\* The issue of the addLogEntry call for item j of the invocation a
AddCall(a, j) ==
    [inv |-> a.n, uid |-> a.uid, idx |-> j, name |-> a.items[j].name,
     ts |-> AddTs(a.items[j], a.date), res |-> "pending", kept |-> FALSE,
     cur |-> "unresolved"]

\* App.tsx:215-231 after the call for item a.j settled: the loop goes on with
\* the next item, or handleCloseModal ends the handler
AddNext(a, g) ==
    IF a.j < Len(a.items)
    THEN [a |-> [a EXCEPT !.j = a.j + 1, !.call = Len(g.adds) + 1],
          g |-> [g EXCEPT !.adds = Append(@, AddCall(a, a.j + 1))]]
    ELSE [a |-> [IdleAdd EXCEPT !.n = a.n], g |-> g]

\* The settling of the call in flight; `kept` tells whether the working list
\* then holds every item of the invocation, `cur` who is the current user
AddSettled(g, a, res) ==
    [g EXCEPT !.adds[a.call].res = res, !.adds[a.call].cur = authUser,
              !.adds[a.call].kept = Range(a.items) \subseteq Range(loggedFoods)]

\* handleAddFood(foodItems), its synchronous part (App.tsx:209-217): the
\* optimistic update, with the render and the save effect that follow it, and
\* with a current user the issue of the first addLogEntry
AddFood(inputs, maxAdds) ==
    /\ adder.pc = "idle"
    /\ adder.n < maxAdds
    /\ \E items \in inputs :
          LET a == [pc |-> "append", uid |-> authUser, items |-> items, j |-> 1,
                    date |-> selectedDate, call |-> Len(ghost.adds) + 1, n |-> adder.n + 1]
          IN /\ loggedFoods' = Optimistic(loggedFoods, items)
             /\ foodLog' = SaveEffect(foodLog, selectedDate, loggedFoods')
             /\ IF authUser # None
                THEN /\ adder' = a
                     /\ ghost' = [ghost EXCEPT !.adds = Append(@, AddCall(a, 1))]
                ELSE /\ adder' = [IdleAdd EXCEPT !.n = adder.n + 1]
                     /\ UNCHANGED ghost
    /\ UNCHANGED <<deletes, view, loadFailed, authUser, selectedDate, pendingAnonUid, remote, nextId,
                   lastMigratedUid, unsubRef, subs, handlers, now, authCount, reloads,
                   bodyRuns, appendLog, passLog, anonLog, subLog>>

\* addLogEntry returns inside handleAddFood's loop (App.tsx:217-225)
AddAppendReturns ==
    /\ adder.pc = "append"
    /\ LET item == adder.items[adder.j]
           r == AddNext(adder, AddSettled(ghost, adder, "ok"))
       IN /\ remote' = AddDoc(remote, adder.uid, item.name, AddTs(item, adder.date), nextId)
          /\ nextId' = nextId + 1
          /\ adder' = r.a
          /\ ghost' = r.g
    /\ UNCHANGED <<deletes, view, loadFailed, authUser, selectedDate, loggedFoods, foodLog,
                   pendingAnonUid, lastMigratedUid, unsubRef, subs, handlers, now,
                   authCount, reloads, bodyRuns, appendLog, passLog, anonLog, subLog>>

\* The catch of App.tsx:226-228 logs and the loop goes on
AddFailed_Stops(a, g) == [a |-> [IdleAdd EXCEPT !.n = a.n], g |-> g]
AddFailed(a, g) == AddNext(a, g)

\* addLogEntry rejects inside handleAddFood's loop: the catch of App.tsx:226-228
AddAppendFails ==
    /\ adder.pc = "append"
    /\ LET r == AddFailed(adder, AddSettled(ghost, adder, "fail"))
       IN /\ adder' = r.a
          /\ ghost' = r.g
    /\ UNCHANGED <<deletes, view, loadFailed, authUser, selectedDate, loggedFoods, foodLog,
                   pendingAnonUid, remote, nextId, lastMigratedUid, unsubRef, subs,
                   handlers, now, authCount, reloads, bodyRuns, appendLog, passLog,
                   anonLog, subLog>>

\* prev.filter(item => item.id !== foodId)  (App.tsx:238, 247)
Filtered_KeepsAll(list, id) == list
Filtered(list, id) ==
    LET Other(item) == item.id # id IN SelectSeq(list, Other)

\* App.tsx:246-248: without a current user the handler itself writes the
\* filtered list of its render to the selected day's bucket
RemoveLocal(fl, date, list, id) == [fl EXCEPT ![date] = Stored(Filtered(list, id))]

\* The record of one handleRemoveFood invocation: the id, the current user, the
\* list before it and the record the list showed under that id; `stored` tells
\* that an append of handleAddFood for that record had succeeded for this
\* user, `res` how the deleteLogEntry call settled, `after` whether a snapshot
\* delivered after it settled still held the record
WithId(list, id) == {e \in Range(list) : e.id = id}
Removal(list, id) ==
    [id |-> id, user |-> authUser, before |-> list,
     names |-> {e.name : e \in WithId(list, id)},
     stored |-> \E e \in WithId(list, id) : \E c \in Range(ghost.adds) :
                    c.name = e.name /\ c.res = "ok" /\ c.uid = authUser,
     res |-> IF authUser = None THEN "local" ELSE "pending", after |-> "none"]

\* handleRemoveFood(foodId), its synchronous part (App.tsx:237-241, 245-252),
\* for the id of a record the list shows (App.tsx:361): the optimistic filter, with the render and the save effect that follow it;
\* with a current user the issue of deleteLogEntry, without one the direct write
RemoveFood(maxRemoves) ==
    /\ Len(ghost.removes) < maxRemoves
    /\ \E id \in {e.id : e \in Range(loggedFoods)} :
          /\ loggedFoods' = Filtered(loggedFoods, id)
          /\ ghost' = [ghost EXCEPT !.removes = Append(@, Removal(loggedFoods, id))]
          /\ IF authUser # None
             THEN /\ deletes' = deletes \cup {[uid |-> authUser, id |-> id,
                                               call |-> Len(ghost.removes) + 1]}
                  /\ foodLog' = SaveEffect(foodLog, selectedDate, loggedFoods')
             ELSE /\ deletes' = deletes
                  /\ foodLog' = SaveEffect(RemoveLocal(foodLog, selectedDate, loggedFoods, id),
                                           selectedDate, loggedFoods')
    /\ UNCHANGED <<adder, view, loadFailed, authUser, selectedDate, pendingAnonUid, remote,
                   nextId, lastMigratedUid, unsubRef, subs, handlers, now, authCount,
                   reloads, bodyRuns, appendLog, passLog, anonLog, subLog>>

\* deleteLogEntry's write (firestoreService.ts:130-133): deleteDoc removes the
\* document at users/<uid>/logs/<entryId>, if there is one
DeleteDoc(rem, uid, id) == [rem EXCEPT ![uid] = {e \in @ : e.id # id}]

\* deleteLogEntry returns (App.tsx:241)
DeleteReturns ==
    \E d \in deletes :
    /\ remote' = DeleteDoc(remote, d.uid, d.id)
    /\ deletes' = deletes \ {d}
    /\ ghost' = [ghost EXCEPT !.removes[d.call].res = "ok"]
    /\ UNCHANGED <<adder, view, loadFailed, authUser, selectedDate, loggedFoods, foodLog,
                   pendingAnonUid, nextId, lastMigratedUid, unsubRef, subs, handlers, now,
                   authCount, reloads, bodyRuns, appendLog, passLog, anonLog, subLog>>

\* deleteLogEntry rejects: the catch of App.tsx:242-244 logs
DeleteFails ==
    \E d \in deletes :
    /\ deletes' = deletes \ {d}
    /\ ghost' = [ghost EXCEPT !.removes[d.call].res = "fail"]
    /\ UNCHANGED <<adder, view, loadFailed, authUser, selectedDate, loggedFoods, foodLog,
                   pendingAnonUid, remote, nextId, lastMigratedUid, unsubRef, subs,
                   handlers, now, authCount, reloads, bodyRuns, appendLog, passLog,
                   anonLog, subLog>>

\* The local calendar of Date: a time value is a count of ticks, with
\* TicksPerDay ticks in a day, DaysPerMonth days in a month and MonthsPerYear
\* months in a year
TicksPerDay == 2
DaysPerMonth == 2
MonthsPerYear == 2
getFullYear(t) == t \div (TicksPerDay * DaysPerMonth * MonthsPerYear)
getMonth(t) == (t \div (TicksPerDay * DaysPerMonth)) % MonthsPerYear
getDate(t) == ((t \div TicksPerDay) % DaysPerMonth) + 1

\* isSameDay(date1, date2) of dateUtils
isSameDay_NoYear(t1, t2) ==
    getMonth(t1) = getMonth(t2) /\ getDate(t1) = getDate(t2)
isSameDay(t1, t2) ==
    /\ getFullYear(t1) = getFullYear(t2)
    /\ getMonth(t1) = getMonth(t2)
    /\ getDate(t1) = getDate(t2)

\* The filter of App.tsx:323-327: a record with a numeric timestamp is shown on
\* its day, a record without one (ts = 0) on every day
DayView(list, sel) ==
    LET Shown(item) == IF item.ts # 0 THEN isSameDay(item.ts, sel) ELSE TRUE
    IN SelectSeq(list, Shown)

\* The calendar section renders MacroTracker, for the first time, for a working
\* list and a selected date
Render(lists, times) ==
    /\ ~view.shown
    /\ \E list \in lists, sel \in times :
          view' = [shown |-> TRUE, list |-> list, date |-> sel, items |-> DayView(list, sel)]
    /\ UNCHANGED <<deletes, adder, ghost, loadFailed, authUser, selectedDate, loggedFoods, foodLog,
                   pendingAnonUid, remote, nextId, lastMigratedUid, unsubRef, subs,
                   handlers, now, authCount, reloads, bodyRuns, appendLog, passLog,
                   anonLog, subLog>>

\* Time passes
Tick(maxTicks) ==
    /\ now < FirstClock + maxTicks
    /\ now' = now + 1
    /\ UNCHANGED <<deletes, adder, ghost, view, loadFailed, authUser, selectedDate, loggedFoods, foodLog,
                   pendingAnonUid,
                   remote, nextId, lastMigratedUid, unsubRef, subs, handlers,
                   authCount, reloads, bodyRuns, appendLog, passLog, anonLog, subLog>>
\* A reload ends the runtime session: suspended handlers are gone, the refs and
\* the React state start again (App.tsx:27-39) and the mount effects run.  A
\* write that was in flight has reached the store or not.
RECURSIVE Land(_, _, _, _)
Land(rem, al, id, S) ==
    IF S = {} THEN [rem |-> rem, al |-> al, id |-> id]
    ELSE LET s == CHOOSE x \in S : \A y \in S : x <= y
             h == handlers[s]
             nm == IF h.pc = "append" THEN h.arr[h.j].name ELSE h.ae[h.k].name
         IN Land(AddDoc(rem, h.uid, nm, h.ts, id), Resolved(al, h.call, "ok"),
                 id + 1, S \ {s})
Lost(al) == [n \in 1..Len(al) |-> IF al[n].res = "pending"
                                  THEN [al[n] EXCEPT !.res = "lost"] ELSE al[n]]

Reload(maxReloads) ==
    /\ reloads < maxReloads
    /\ reloads' = reloads + 1
    /\ \E S \in SUBSET {s \in Slots : handlers[s].pc \in {"append", "appendB"}},
          D \in SUBSET deletes :
          LET r == Land(remote, appendLog, nextId, S)
          IN /\ remote' = [u \in Uids |-> {e \in r.rem[u] :
                                \A d \in D : d.uid # u \/ d.id # e.id}]
             /\ nextId' = r.id
             /\ appendLog' = Lost(r.al)
    /\ authUser' = None
    /\ selectedDate' = Today
    /\ loggedFoods' = LoadList(foodLog, Today)
    /\ foodLog' = Mounted(foodLog)
    /\ loadFailed' = IF foodLog[Today].kind = "bad"
                     THEN loadFailed \cup {Today} ELSE loadFailed
    /\ lastMigratedUid' = None
    /\ unsubRef' = None
    /\ subs' = NoSubs
    /\ handlers' = [s \in Slots |-> IdleH]
    /\ bodyRuns' = NoRuns
    /\ subLog' = <<>>
    /\ adder' = [IdleAdd EXCEPT !.n = adder.n]
    /\ deletes' = {}
    /\ UNCHANGED <<pendingAnonUid, now, authCount, passLog, anonLog, view, ghost>>

\* ------------------------------------------------------------------ specifications
LocalA == Rec("a", 0, 0)        \* a local record without a timestamp
LocalB == Rec("b", 0, 0)
OldA == Rec("a", OldTs, 0)      \* a local record that carries a timestamp

\* Spec: sign-ins and sign-outs of two accounts whose handlers interleave.
SessionAuth == 3
SessionSlots == 2
SessionBuckets == {[k \in DayKeys |-> IF k = Today THEN Stored(<<LocalA>>) ELSE Absent]}

Init == InitWith(SessionBuckets, {NoDocs}, {None}, SessionSlots)

Next ==
    \/ AuthChanged({None, "U", "V"}, SessionAuth)
    \/ ProfileReturns
    \/ ListReturns
    \/ ListFails
    \/ AppendReturns
    \/ AppendFails
    \/ Push

Spec == Init /\ [][Next]_vars

\* SpecSeq: the same, but a sign-in is delivered only after the handler of the
\* previous one has finished.
SeqAuth == 5
InitSeq == InitWith(SessionBuckets, {NoDocs}, {None}, 1)

NextSeq ==
    \/ AuthChanged({None, "U", "V"}, SeqAuth)
    \/ ProfileReturns
    \/ ListReturns
    \/ ListFails
    \/ AppendReturns
    \/ AppendFails
    \/ Push

SpecSeq == InitSeq /\ [][NextSeq]_vars

\* SpecRefire: one account signs in and the callback fires once more for it
\* with no sign-out in between.
RefireAuth == 2
RefireSlots == 2
RefireBuckets ==
    {[k \in DayKeys |-> IF k = Today THEN Stored(items) ELSE Absent] :
        items \in {<<LocalA>>, <<LocalA, LocalB>>}}
InitRefire == InitWith(RefireBuckets, {NoDocs}, {None}, RefireSlots)

NextRefire ==
    \/ AuthChanged({"U"}, RefireAuth)
    \/ AuthRefired(RefireAuth)
    \/ ProfileReturns
    \/ ListReturns
    \/ ListFails
    \/ AppendReturns
    \/ AppendFails
    \/ Push

SpecRefire == InitRefire /\ [][NextRefire]_vars

\* SpecRerun: one account signs in, the page reloads, the account signs in
\* again; nothing but the migration writes to the two stores.
RerunAuth == 2
RerunTicks == 1
RerunReloads == 1
RerunBuckets ==
    [DayKeys -> {Absent, Stored(<<LocalA, LocalB>>), Stored(<<OldA>>), Stored(<<OldA, LocalB>>)}]
InitRerun == InitWith(RerunBuckets, {NoDocs}, {None}, 1)

NextRerun ==
    \/ AuthChanged({"U"}, RerunAuth)
    \/ ProfileReturns
    \/ ListReturns
    \/ AppendReturns
    \/ AppendFails
    \/ Tick(RerunTicks)
    \/ Reload(RerunReloads)

SpecRerun == InitRerun /\ [][NextRerun]_vars

\* SpecMigrate: one account signs in and out while days are selected, snapshots
\* arrive and store calls fail; some stored buckets are unparseable.
MigrateAuth == 2
MigrateTicks == 1
MigrateBuckets ==
    [DayKeys -> {Absent, Malformed, Stored(<<LocalA, LocalB>>), Stored(<<OldA, LocalB>>)}]
OldDocs == [u \in Uids |-> IF u = "U" THEN {Rec("a", OldTs, 0)} ELSE {}]
InitMigrate == InitWith(MigrateBuckets, {NoDocs, OldDocs}, {None}, 1)

NextMigrate ==
    \/ AuthChanged({None, "U"}, MigrateAuth)
    \/ ProfileReturns
    \/ ListReturns
    \/ ListFails
    \/ AppendReturns
    \/ AppendFails
    \/ Push
    \/ SelectDate
    \/ Tick(MigrateTicks)

SpecMigrate == InitMigrate /\ [][NextMigrate]_vars

\* SpecLive: one account signs in and out, store calls fail, some buckets are
\* unparseable; every store call that was issued settles: it returns or rejects.
LiveAuth == 2
LiveBuckets == [DayKeys -> {Malformed, Stored(<<LocalA, LocalB>>), Stored(<<OldA>>)}]
InitLive == InitWith(LiveBuckets, {NoDocs}, {None}, 1)

NextLive ==
    \/ AuthChanged({None, "U"}, LiveAuth)
    \/ ProfileReturns
    \/ ListReturns
    \/ ListFails
    \/ AppendReturns
    \/ AppendFails

SpecLive ==
    /\ InitLive /\ [][NextLive]_vars
    /\ WF_vars(ProfileReturns)
    /\ WF_vars(ListReturns \/ ListFails)
    /\ WF_vars(AppendReturns \/ AppendFails)

\* SpecAnon: a device that was used anonymously (the marker and the anonymous
\* log may be left from an earlier session) signs in to an account; the two
\* remote logs may share records and the store's reads and writes may fail.
\* Documents stored before the session carry the ids below those the session gives.
AnonAuth == 2
AnonDocs ==
    {[u \in Uids |-> IF u = AnonUid THEN la ELSE IF u = "U" THEN lu ELSE {}] :
        la \in {{}, {Rec("a", OldTs, 0)}, {Rec("a", OldTs, 0), Rec("b", OldTs, -1)}},
        lu \in {{}, {Rec("a", OldTs, 0)}, {Rec("a", OldTs, 0), Rec("b", OldTs, -1)}}}
InitAnon == InitWith({[k \in DayKeys |-> Absent]}, AnonDocs, {None, AnonUid}, 1)

NextAnon ==
    \/ AuthChanged({None, AnonUid, "U"}, AnonAuth)
    \/ ProfileReturns
    \/ ListReturns
    \/ AnonListReturns
    \/ AnonListFails
    \/ NewListReturns
    \/ NewListFails
    \/ AnonAppendReturns
    \/ AnonAppendFails

SpecAnon == InitAnon /\ [][NextAnon]_vars

\* SpecAdd: records are added, signed in or not, while snapshots arrive and
\* appends fail.
AddAuth == 2
AddMax == 1
NewC == Rec("c", 0, 0)
NewD == Rec("d", 0, 0)
AddInputs == {<<NewC>>, <<NewC, NewD>>}
InitAdd == InitWith({[k \in DayKeys |-> Absent]}, {NoDocs, OldDocs}, {None}, 1)

NextAdd ==
    \/ AuthChanged({None, "U"}, AddAuth)
    \/ ProfileReturns
    \/ ListReturns
    \/ AppendReturns
    \/ Push
    \/ PushError
    \/ AddFood(AddInputs, AddMax)
    \/ AddAppendReturns
    \/ AddAppendFails

SpecAdd == InitAdd /\ [][NextAdd]_vars

\* SpecDay: the day view is rendered for working lists of records with and
\* without timestamps and for selected dates over several years.
ViewYears == 2
ViewLen == 2
ViewTimes == 1..(ViewYears * MonthsPerYear * DaysPerMonth * TicksPerDay)
ViewRecs == {Rec("a", t, 0) : t \in {0} \cup ViewTimes}
ViewLists == UNION {[1..n -> ViewRecs] : n \in 0..ViewLen}
InitDay == InitWith({[k \in DayKeys |-> Absent]}, {NoDocs}, {None}, 1)

NextDay == Render(ViewLists, ViewTimes)

SpecDay == InitDay /\ [][NextDay]_vars

\* SpecRemove: records kept on the device by earlier sessions, added in this
\* one or migrated to the account are removed, signed in or not, while
\* snapshots arrive and deletes fail.  The ids of records made on the device
\* (crypto.randomUUID) are negative; the store's ids count from 1.
RemoveAuth == 2
RemoveAdds == 1
RemoveMax == 2
KeptP == Rec("p", 0, -11)
KeptQ == Rec("q", 0, -12)
NewE == Rec("e", 0, -13)
RemoveBuckets ==
    {[k \in DayKeys |-> IF k = Today THEN b ELSE Absent] :
        b \in {Absent, Stored(<<KeptP, KeptQ>>)}}
InitRemove == InitWith(RemoveBuckets, {NoDocs}, {None}, 1)

NextRemove ==
    \/ AuthChanged({None, "U"}, RemoveAuth)
    \/ ProfileReturns
    \/ ListReturns
    \/ AppendReturns
    \/ Push
    \/ AddFood({<<NewE>>}, RemoveAdds)
    \/ AddAppendReturns
    \/ RemoveFood(RemoveMax)
    \/ DeleteReturns
    \/ DeleteFails

SpecRemove == InitRemove /\ [][NextRemove]_vars

\* SpecFail: a device with local records and, possibly, an anonymous log left
\* by an earlier session signs in to an account; every read and every append
\* of the two migrations may be rejected.
FailAuth == 3
FailBuckets ==
    {[k \in DayKeys |-> IF k = Today THEN b ELSE Absent] :
        b \in {Absent, Stored(<<OldA, LocalB>>)}}
FailDocs ==
    {[u \in Uids |-> IF u = AnonUid THEN la ELSE IF u = "U" THEN lu ELSE {}] :
        la \in {{}, {Rec("a", OldTs, 0), Rec("b", OldTs, -1)}},
        lu \in {{}, {Rec("a", OldTs, 0)}}}
InitFail == InitWith(FailBuckets, FailDocs, {None, AnonUid}, 1)

NextFail ==
    \/ AuthChanged({None, "U"}, FailAuth)
    \/ ProfileReturns
    \/ ProfileFails
    \/ ListReturns
    \/ ListFails
    \/ AppendReturns
    \/ AppendFails
    \/ AnonListReturns
    \/ AnonListFails
    \/ NewListReturns
    \/ NewListFails
    \/ AnonAppendReturns
    \/ AnonAppendFails

SpecFail == InitFail /\ [][NextFail]_vars

\* SpecRace: a device whose marker names an anonymous uid signs in to an
\* account and then continues as a guest, under a new anonymous uid, while the
\* handler of the sign-in is still migrating.
RaceAuth == 3
RaceSlots == 2
RaceDocs ==
    {[u \in Uids |-> IF u = AnonUid THEN {Rec("a", OldTs, 0)} ELSE {}]}
InitRace == InitWith({[k \in DayKeys |-> Absent]}, RaceDocs, {None, AnonUid}, RaceSlots)

NextRace ==
    \/ AuthChanged({None, GuestUid, "U"}, RaceAuth)
    \/ ProfileReturns
    \/ ListReturns
    \/ AnonListReturns
    \/ AnonListFails
    \/ NewListReturns
    \/ NewListFails
    \/ AnonAppendReturns
    \/ AnonAppendFails

SpecRace == InitRace /\ [][NextRace]_vars

\* SpecLeak: a device with nothing stored is used by account U, whose remote
\* log holds a record, and after U's sign-out by account V; an account signs
\* out after its handler has subscribed, days are selected in the calendar and
\* snapshots arrive while the account is signed in.
LeakAuth == 3
Shared == Rec("s", OldTs, 0)         \* the record of U's remote log
LeakDocs == {[u \in Uids |-> IF u = "U" THEN {Shared} ELSE {}]}
InitLeak == InitWith({[k \in DayKeys |-> Absent]}, LeakDocs, {None}, 1)

NextLeak ==
    \/ SignIn({"U", "V"}, LeakAuth)
    \/ SettledSignOut(LeakAuth)
    \/ ProfileReturns
    \/ ListReturns
    \/ AppendReturns
    \/ Push
    \/ SelectDate

SpecLeak == InitLeak /\ [][NextLeak]_vars

\* ------------------------------------------------------------------ claims
InMigration(h) == h.pc \in {"listU", "append"}
ActiveSubs == {u \in Uids : subs[u] > 0}
RECURSIVE SumSubs(_)
SumSubs(S) == IF S = {} THEN 0 ELSE LET u == CHOOSE x \in S : TRUE IN subs[u] + SumSubs(S \ {u})

\* C1 (as stated): within one session the body of Local->Remote Migration runs
\* at most once for every uid, whatever the sequence of identity transitions.
C1_BodyOncePerUid == \A u \in Uids : bodyRuns[u] <= 1

\* C5: at every point at most one remote subscription is active, and it is the
\* one whose handle is stored: the stored one was cancelled before a new one
\* was stored.
C5_OneSubscription ==
    /\ SumSubs(Uids) <= 1
    /\ \A u \in ActiveSubs : unsubRef = u
\* C5 witness: two sign-ins for different uids whose handlers interleaved (the
\* handler that started later subscribed first), one subscription left active.
C5_Witness ==
    /\ Len(subLog) = 2
    /\ subLog[1].uid # subLog[2].uid
    /\ subLog[1].hid > subLog[2].hid
    /\ subs[subLog[2].uid] = 1

\* C6 (as stated): while the Local->Remote Migration of the latest transition
\* is in flight, no subscription is active and the stored handle is null.
C6_TeardownBeforeMigration ==
    \A s \in Slots :
        (handlers[s].hid = authCount /\ InMigration(handlers[s]))
            => (ActiveSubs = {} /\ unsubRef = None)
\* C6 (amended): subscriptions change only when a sign-out is handled or in the
\* last segment of a sign-in handler, after its migrations; that segment leaves
\* exactly the new subscription active and stored.
C6_TeardownAtSubscribe ==
    [][(subs' # subs \/ unsubRef' # unsubRef) =>
          \/ authUser' = None /\ authCount' = authCount + 1
          \/ \E s \in Slots :
                /\ handlers[s].pc # "idle" /\ handlers'[s].pc = "idle"
                /\ unsubRef' = handlers[s].uid
                /\ subs' = [u \in Uids |-> IF u = handlers[s].uid THEN 1 ELSE 0]]_vars
\* C6 witness: the migration for a new uid is in flight while the subscription
\* of the previous identity is still active.
C6_Witness ==
    \E s \in Slots :
        /\ handlers[s].pc = "append"
        /\ handlers[s].hid = authCount
        /\ \E u \in ActiveSubs : u # handlers[s].uid /\ unsubRef = u
\* C2 (as stated): when the callback fires twice for one uid with no sign-out
\* in between, the appends made are those of one pass only, the other
\* invocation issues none, also when the second handler starts while the first
\* is suspended at a store call.
C2_SecondPassAppendsNothing ==
    \A m, n \in 1..Len(appendLog) : appendLog[m].hid = appendLog[n].hid
AllIdle == \A s \in Slots : handlers[s].pc = "idle"
Passes == Range(passLog)
Calls == Range(appendLog)
NoDupKeys(docs) == \A d, e \in docs : RemoteKey(d) = RemoteKey(e) => d = e

\* C3 (as stated): over two Local->Remote runs for the same uid, the second
\* after a reload, no local record is appended to the remote log more than
\* once: no record at one position of one bucket has two appends that reached
\* the store.
C3_SecondRunAppendsNothing ==
    \A c, d \in Calls :
        (c.uid = d.uid /\ c.src = d.src /\ c.idx = d.idx /\ c.name = d.name
            /\ c.res = "ok" /\ d.res = "ok") => c.hid = d.hid

\* C4 (as stated): once a migration pass has completed for uid U, U's remote
\* log holds no two records with the same (name, timestamp), given that it
\* held none before.
C4_NoDuplicateKeys ==
    AllIdle => \A u \in Uids : NoDupKeys(remote[u])

\* C7 (as stated): every bucket a pass parsed is absent from the Local Cache
\* Store when the pass ends, also one in which an append failed.
C7_ParsedBucketsRemoved ==
    \A p \in Passes : p.parsed \subseteq p.absentAfter
\* C7 (amended): every bucket whose loop ran to its end is marked and absent
\* when the pass ends; a visit ended by a failed append does not mark its bucket.
C7_CompletedBucketsRemoved ==
    \A p \in Passes :
        /\ p.removed \subseteq p.absentAfter
        /\ p.parsed = p.removed \cup p.failed
        /\ p.marks = p.visits - p.fails
\* C7 witness: a pass in which an append failed has ended and the bucket is
\* still stored, while another bucket of the pass was removed.
C7_Witness ==
    \E p \in Passes :
        /\ p.failed # {} /\ p.failed \cap p.absentAfter = {}
        /\ p.removed # {}

\* C8 (as stated): after the append of one record of a bucket fails, the
\* records of that bucket that follow it are still attempted.
C8_RestOfBucketAttempted ==
    \A p \in Passes : \A c \in Calls :
        (c.hid = p.hid /\ c.res = "fail" /\ c.src # "anon" /\ c.more > 0) =>
            \E d \in Calls : d.hid = c.hid /\ d.visit = c.visit /\ d.idx > c.idx
\* C8 (amended): a failed append ends the visit of its bucket: no later record
\* of that visit is attempted, and the pass goes on with the next key.
C8_FailureEndsBucket ==
    \A c, d \in Calls :
        (c.res = "fail" /\ c.src # "anon" /\ d.hid = c.hid /\ d.visit = c.visit)
            => d.idx <= c.idx
\* C8 witness: the append of a record with records after it failed, the pass ended,
\* and a record of a later bucket of the same pass was attempted.
C8_Witness ==
    \E p \in Passes : \E c, d \in Calls :
        /\ c.hid = p.hid /\ c.res = "fail" /\ c.more > 0
        /\ d.hid = p.hid /\ d.visit > c.visit

\* C9 (as stated): a bucket that load found unparseable is not removed by a
\* later Local->Remote Migration pass.
C9_UnparseableBucketKept ==
    \A p \in Passes : loadFailed \cap p.removed = {}

\* C10 (as stated): an Anonymous->Permanent pass appends to the new uid's log
\* only records whose key that log did not hold when the pass started (so the
\* log's count is unchanged when it held every record of the anonymous log).
C10_AppendsOnlyMissingKeys ==
    \A c \in Calls : (c.src = "anon" /\ c.res = "ok") => ~c.dup
AnonPasses == Range(anonLog)
AnonCalls(p) == {c \in Calls : c.hid = p.hid /\ c.src = "anon"}
Missing(p) == {k \in 1..Len(p.ae) : RemoteKey(p.ae[k]) \notin p.rs}
\* C10 (amended): the pass appends to the new uid's log, once each and up to
\* the first append that fails, exactly the records of the anonymous log whose
\* key is not in the result of the pass's own read of the new uid's log (the
\* empty result when that read fails), and appends nothing to the anonymous
\* log; when the anonymous log is not empty and that result holds every key of
\* it, the new uid's record count is unchanged and the marker is cleared.
C10_AppendsMissingFromRead ==
    \A p \in AnonPasses :
        LET mine == AnonCalls(p)
            want == {k \in Missing(p) : \A c \in mine : c.res = "fail" => k <= c.idx}
        IN /\ {c.idx : c \in mine} = want
           /\ Cardinality(mine) = Cardinality(want)
           /\ \A c \in mine : /\ c.uid = p.uid /\ c.uid # p.anon
                               /\ c.name = p.ae[c.idx].name /\ c.ts = p.ae[c.idx].ts
           /\ p.n1 = p.n0 + Cardinality({c \in mine : c.res = "ok"})
           /\ (p.ae # <<>> /\ Missing(p) = {}) => (p.n1 = p.n0 /\ p.cleared)
\* C10 witness: a pass over an anonymous log of two records, one of them found
\* in the read of the new uid's log, has appended the other and cleared the marker.
C10_Witness ==
    \E p \in AnonPasses :
        /\ Len(p.ae) = 2 /\ Cardinality(Missing(p)) = 1
        /\ p.cleared /\ p.n1 = p.n0 + 1 /\ pendingAnonUid = None

\* C11 (as stated): every ended pass over a non-empty anonymous log has
\* cleared the marker, whether or not an append failed.
C11_MarkerClearedAfterPass ==
    \A p \in AnonPasses : p.ae # <<>> => (p.cleared /\ p.marker = None)
\* C11 (amended): a pass over a non-empty anonymous log clears the marker
\* exactly when none of its appends failed; a failed append ends the pass and
\* the marker still names the anonymous uid.
C11_MarkerClearedUnlessAppendFailed ==
    \A p \in AnonPasses : p.ae # <<>> =>
        LET failed == {c \in AnonCalls(p) : c.res = "fail"}
        IN /\ p.cleared <=> failed = {}
           /\ p.marker = IF failed = {} THEN None ELSE p.anon
           /\ Cardinality(failed) <= 1
           /\ \A c \in failed : \A d \in AnonCalls(p) : d.idx <= c.idx
\* C11 witness: a pass over a two-record anonymous log whose first append
\* failed has ended and the marker is still stored.
C11_Witness ==
    \E p \in AnonPasses : \E c \in AnonCalls(p) :
        /\ Len(p.ae) = 2 /\ c.res = "fail" /\ c.more > 0
        /\ ~p.cleared /\ pendingAnonUid = p.anon

\* C12 (as stated): a pass that read an empty anonymous log has cleared the
\* marker and made no append.
C12_EmptyLogClearsMarker ==
    \A p \in AnonPasses : p.ae = <<>> => (p.cleared /\ AnonCalls(p) = {})
\* C12 (amended): a pass that read an empty anonymous log makes no append and
\* leaves the marker naming the anonymous uid.
C12_EmptyLogKeepsMarker ==
    \A p \in AnonPasses : p.ae = <<>> =>
        /\ AnonCalls(p) = {}
        /\ ~p.cleared /\ p.marker = p.anon
        /\ p.n1 = p.n0
\* C12 witness: the anonymous log is empty, a pass over it has ended and the
\* marker still names the anonymous uid.
C12_Witness ==
    \E p \in AnonPasses :
        /\ p.ae = <<>> /\ remote[p.anon] = {}
        /\ pendingAnonUid = p.anon /\ AllIdle

AddCalls == Range(ghost.adds)
\* C13: the synchronous part of handleAddFood leaves every record in the
\* working list, in order after the earlier ones, and at that point no append of
\* the invocation has settled, the remote log is unchanged and the bucket the
\* save effect wrote holds the records too; with or without a current user.
C13_OptimisticFirst ==
    [][adder'.n = adder.n + 1 =>
          /\ \E items \in AddInputs : loggedFoods' = loggedFoods \o items
          /\ foodLog'[selectedDate] = Stored(loggedFoods')
          /\ remote' = remote
          /\ \A c \in Range(ghost'.adds) : c.inv = adder'.n => c.res = "pending"]_vars
\* C13 witness: with a current user, two records were added, both are in the
\* working list and the first append is still in flight.
C13_Witness ==
    /\ adder.pc = "append" /\ adder.j = 1 /\ Len(adder.items) = 2
    /\ authUser # None
    /\ Range(adder.items) \subseteq Range(loggedFoods)
    /\ ghost.adds[adder.call].res = "pending"

\* C14: when the callback handles a null user, on its return the stored handle
\* is null, no subscription is active and the working list is empty; with no
\* stored handle the subscriptions are left as they were.
C14_SignOutTearsDown ==
    [][(authCount' = authCount + 1 /\ authUser' = None) =>
          /\ unsubRef' = None
          /\ ActiveSubs' = {}
          /\ loggedFoods' = <<>>
          /\ (unsubRef = None => subs' = subs)]_vars
\* C14 witness: a subscription was opened and the sign-out that followed has
\* left none active, no handle stored and the working list empty.
C14_Witness ==
    /\ authUser = None /\ AllIdle
    /\ subLog # <<>> /\ ghost.authLog[Len(ghost.authLog)] = None
    /\ subLog[Len(subLog)].hid < authCount
    /\ ActiveSubs = {} /\ unsubRef = None /\ loggedFoods = <<>>

\* C15 (as stated): a snapshot with records that is delivered while an identity
\* is active changes the working list without any Local Day Bucket being written.
C15_NoSaveWhileSignedIn ==
    (ghost.push.seen /\ ghost.push.user # None /\ ghost.push.payload # <<>>)
        => ghost.push.saved = ghost.push.bucket

OkCalls(u) == {n \in 1..Len(appendLog) : appendLog[n].res = "ok" /\ appendLog[n].uid = u}
\* C16: every append a migration issues is for the uid its handler was started
\* for, and when it succeeds the record is in that uid's remote log, whoever is
\* the current identity by then; no other uid's log gains a record.
C16_AppendsTargetOwnUid ==
    /\ \A c \in Calls :
          /\ c.uid = ghost.authLog[c.hid]
          /\ c.res = "ok" =>
                \E d \in remote[c.uid] : d.id >= 1 /\ d.name = c.name /\ d.ts = c.ts
    /\ \A u \in Uids :
          Cardinality({d \in remote[u] : d.id >= 1}) = Cardinality(OkCalls(u))
\* C16 witness: a pass for one uid has ended after one of its appends
\* succeeded while another identity, or none, was current.
C16_Witness ==
    \E p \in Passes : \E c \in Calls :
        /\ c.hid = p.hid /\ c.res = "ok" /\ c.cur # c.uid
        /\ \E d \in remote[p.uid] : d.name = c.name /\ d.ts = c.ts
        /\ \A u \in Uids \ {p.uid} : remote[u] = {}

C18_PushReplacesList ==
    [][ghost'.push # ghost.push =>
          /\ loggedFoods' = ghost'.push.payload
          /\ ghost'.push.payload = getLogEntries(remote[ghost'.push.uid], now)
          /\ subs[ghost'.push.uid] > 0]_vars
\* C18 witness: the working list held an optimistic entry that the payload
\* did not hold; after the callback the list is the payload, without it.
C18_Witness ==
    /\ ghost.push.seen /\ ghost.push.payload # <<>>
    /\ loggedFoods = ghost.push.payload
    /\ \E e \in Range(ghost.push.before) : e.id = 0 /\ e \notin Range(loggedFoods)

\* C20 (as stated): when an append of handleAddFood has failed, with the
\* identity still active, the working list holds every record of the invocation.
C20_ListKeepsAllOnFailure ==
    \A c \in AddCalls : (c.res = "fail" /\ c.cur = c.uid) => c.kept
\* C20 (amended): a failed append of handleAddFood changes neither the working
\* list nor a bucket, and the append of the next record is issued.
C20_FailureGoesOn ==
    [][(adder.pc = "append" /\ ghost'.adds[adder.call].res = "fail") =>
          /\ loggedFoods' = loggedFoods
          /\ foodLog' = foodLog
          /\ adder.j < Len(adder.items) =>
                /\ adder'.pc = "append" /\ adder'.j = adder.j + 1
                /\ ghost'.adds[adder'.call] = AddCall(adder, adder.j + 1)]_vars
\* C20 witness: the first append of an invocation failed while the list held
\* all its records, and the append of the second record was issued.
C20_Witness ==
    \E c, d \in AddCalls :
        /\ c.inv = d.inv /\ c.res = "fail" /\ c.kept /\ c.cur = c.uid
        /\ d.idx > c.idx

DayIndex(t) == t \div TicksPerDay
\* C19: the day view holds, in the list's order, exactly the records whose
\* timestamp lies on the selected calendar day and the records without a
\* timestamp; a record of another day is not in it.
C19_DayViewExact ==
    view.shown =>
        LET OnDay(item) == item.ts = 0 \/ DayIndex(item.ts) = DayIndex(view.date)
        IN view.items = SelectSeq(view.list, OnDay)
\* C19 witness: of two records, one on the selected day at another time of
\* that day and one on the same date and month of another year, the view shows
\* the first only.
C19_Witness ==
    /\ view.shown /\ Len(view.list) = 2 /\ Len(view.items) = 1
    /\ view.items[1] = view.list[1] /\ view.list[1].ts # view.date
    /\ getDate(view.list[2].ts) = getDate(view.date)
    /\ getMonth(view.list[2].ts) = getMonth(view.date)
    /\ view.list[2].ts # 0

Removals == Range(ghost.removes)
\* C21: handleRemoveFood with no current user leaves the working list without
\* any record of that id, the other records in their order, the selected day's
\* bucket holding exactly that list, and issues no store call.
C21_LocalRemove ==
    [][(Len(ghost'.removes) = Len(ghost.removes) + 1 /\ authUser = None) =>
          LET id == ghost'.removes[Len(ghost'.removes)].id
              Other(item) == item.id # id
          IN /\ loggedFoods' = SelectSeq(loggedFoods, Other)
             /\ \A e \in Range(loggedFoods') : e.id # id
             /\ foodLog'[selectedDate] = Stored(SelectSeq(loggedFoods, Other))
             /\ \A k \in DayKeys \ {selectedDate} : foodLog'[k] = foodLog[k]
             /\ deletes' = deletes /\ remote' = remote /\ nextId' = nextId]_vars
\* C21 witness: with no current user, one of two records kept on the device
\* was removed; the list and today's bucket hold the other one only.
C21_Witness ==
    \E r \in Removals :
        /\ r.user = None /\ authUser = None /\ Len(r.before) = 2
        /\ Len(loggedFoods) = 1 /\ loggedFoods[1].id # r.id
        /\ foodLog[selectedDate] = Stored(loggedFoods)
        /\ deletes = {}

\* C22: a rejected read of a migration counts as an empty result and the
\* handler goes on.  After a rejected read of the uid's log the Local->Remote
\* pass skips no record as already stored; after a rejected read of the
\* anonymous log the Anonymous->Permanent pass ends with no append; after a
\* rejected read of the new uid's log it appends every anonymous record; and
\* every sign-in handler is either still in flight or has subscribed.
C22_RejectedReadIsEmpty ==
    /\ \A s \in Slots :
          LET h == handlers[s] IN
          ("listU" \in h.lf /\ h.pc = "append") =>
              /\ h.rs = {}
              /\ {c.idx : c \in {d \in Calls : d.hid = h.hid /\ d.visit = h.visits
                                                /\ d.src # "anon"}} = 1..h.j
    /\ \A p \in AnonPasses :
          /\ "listA" \in p.lf => (p.ae = <<>> /\ AnonCalls(p) = {} /\ ~p.cleared)
          /\ "listB" \in p.lf => (p.rs = {} /\ Missing(p) = 1..Len(p.ae))
    /\ \A n \in 1..authCount :
          ghost.authLog[n] # None =>
              \/ \E s \in Slots : handlers[s].hid = n /\ handlers[s].pc # "idle"
              \/ \E e \in Range(subLog) : e.hid = n /\ e.uid = ghost.authLog[n]
\* C22 witness: the read of the uid's log and the read of the new uid's log
\* were both rejected; the handler appended a local record and every anonymous
\* record, and its subscription is active.
C22_Witness ==
    \E p \in AnonPasses :
        /\ {"listU", "listB"} \subseteq p.lf
        /\ p.ae # <<>> /\ p.n1 = p.n0 + Len(p.ae)
        /\ \E c \in Calls : c.hid = p.hid /\ c.src # "anon" /\ c.res = "ok"
        /\ \E e \in Range(subLog) : e.hid = p.hid
        /\ subs[p.uid] = 1 /\ unsubRef = p.uid

InLocal(h) == h.pc \in {"profile", "listU", "append"}
InAnon(h) == h.pc \in {"listA", "listB", "appendB"}
\* C23 (as stated): once the handler of the callback for an anonymous identity
\* has finished, and that identity is still the current one and was not the
\* source of any Anonymous->Permanent pass, the marker names it.
C23_MarkerNamesAnonymous ==
    \A g \in Anons :
        (authUser = g /\ AllIdle /\ \A p \in AnonPasses : p.anon # g)
            => pendingAnonUid = g
\* The other parts of C23 hold: the callback's first segment for an anonymous
\* identity leaves the marker naming it; a sign-in handler for uid B that has
\* finished its Local->Remote part starts the Anonymous->Permanent Migration
\* exactly when the marker it then reads exists and differs from B, with that
\* marker as the source, and otherwise subscribes.
AnonMigrationGuard ==
    [][/\ (authCount' = authCount + 1 /\ authUser' \in Anons) => pendingAnonUid' = authUser'
       /\ \A s \in Slots :
             (InLocal(handlers[s]) /\ ~InLocal(handlers'[s])) =>
                 /\ handlers'[s].pc = "listA" <=>
                        (pendingAnonUid # None /\ pendingAnonUid # handlers[s].uid)
                 /\ handlers'[s].pc = "listA" => handlers'[s].anon = pendingAnonUid
                 /\ handlers'[s].pc # "listA" =>
                        (handlers'[s].pc = "idle" /\ unsubRef' = handlers[s].uid)
       /\ \A s \in Slots :
             InAnon(handlers'[s]) =>
                 /\ handlers'[s].anon \notin {None, handlers'[s].uid}
                 /\ handlers'[s].uid = ghost'.authLog[handlers'[s].hid]]_vars

C25_ProfileFailureGoesOn ==
    \A n \in ghost.rejected :
        /\ \/ \E s \in Slots : handlers[s].hid = n /\ InMigration(handlers[s])
           \/ \E p \in Passes : p.hid = n /\ p.uid = ghost.authLog[n]
           \/ \E q \in Passes : q.hid # n /\ q.uid = ghost.authLog[n]
        /\ \/ \E s \in Slots : handlers[s].hid = n /\ handlers[s].pc # "idle"
           \/ \E e \in Range(subLog) : e.hid = n /\ e.uid = ghost.authLog[n]
\* C25 witness: setUserProfile was rejected for the current user; the pass
\* appended a local record and removed its bucket, and the subscription is active.
C25_Witness ==
    \E n \in ghost.rejected : \E p \in Passes : \E c \in Calls :
        /\ p.hid = n /\ c.hid = n /\ c.res = "ok" /\ p.removed # {}
        /\ authUser = p.uid /\ AllIdle
        /\ subs[p.uid] = 1 /\ unsubRef = p.uid

\* C26: when a subscription reports a transport error its callback is called
\* with the empty sequence: the working list becomes empty, the stored handle
\* is still the one of that subscription, and nothing else of the session
\* changes (no handler is started or ended, the identity and the remote logs
\* are as before).
C26_ErrorEmptiesList ==
    [][ghost'.error # ghost.error =>
          /\ loggedFoods' = <<>>
          /\ unsubRef' = unsubRef /\ unsubRef' = ghost'.error.uid
          /\ authUser' = authUser /\ handlers' = handlers /\ adder' = adder
          /\ remote' = remote /\ lastMigratedUid' = lastMigratedUid]_vars
\* C26 witness: the working list held the records of U's log when the
\* subscription failed; it is empty now and the handle is still stored.
C26_Witness ==
    /\ ghost.error.seen /\ ghost.error.before # <<>>
    /\ \E e \in Range(ghost.error.before) : e.id > 0
    /\ loggedFoods = <<>>
    /\ authUser = ghost.error.uid /\ unsubRef = ghost.error.uid

\* C27 (as stated): on a device that held no record of its own, the record of
\* U's remote log, which reaches the device through U's subscription only, is
\* never appended to another uid's log by a Local->Remote pass.
C27_NoForeignRecordMigrated ==
    \A c \in Calls :
        (c.src \in DayKeys /\ c.res = "ok" /\ c.name = Shared.name) => c.uid = "U"

\* C28 (as stated): whenever no identity handler is in flight, an active
\* subscription is on the uid of the current identity, and none is active when
\* there is no identity.
C28_SubscriptionFollowsIdentity ==
    AllIdle => /\ \A u \in ActiveSubs : u = authUser
               /\ authUser = None => (ActiveSubs = {} /\ unsubRef = None)

\* The appends of pass p for the record at position j of the array parsed in
\* visit v
CallsFor(p, v, j) == {c \in Calls : c.hid = p.hid /\ c.src # "anon" /\ c.visit = v /\ c.idx = j}
\* C29 (as stated), second part: when a pass has ended, a record whose append
\* failed, and that no visit of the pass appended or found stored, is in its
\* bucket of the Local Cache Store.
C29_UnstoredRecordStays ==
    \A p \in Passes : \A c \in Calls :
        (/\ c.hid = p.hid /\ c.src \in DayKeys /\ c.res = "fail"
         /\ \A d \in Calls : (d.hid = p.hid /\ d.src = c.src /\ d.name = c.name)
                                 => d.res = "fail")
            => /\ p.after[c.src].kind = "ok"
               /\ \E e \in Range(p.after[c.src].items) : e.name = c.name
\* The first part of C29 holds: a bucket that a pass removed was marked by a
\* visit in which every record of the parsed array had its key in the remote
\* snapshot or was appended, once, with success.
RemovedOnlyIfAllStored ==
    \A p \in Passes :
        /\ p.removed = {m.key : m \in p.mk}
        /\ \A m \in p.mk : \A j \in 1..Len(m.arr) :
              \/ /\ CallsFor(p, m.visit, j) = {}
                 /\ \E t \in FirstClock..now : LocalKey(m.arr[j], t) \in p.rs
              \/ /\ Cardinality(CallsFor(p, m.visit, j)) = 1
                 /\ \A c \in CallsFor(p, m.visit, j) :
                       c.res = "ok" /\ c.name = m.arr[j].name

\* C30 (as stated): a record added with handleAddFood under a current user,
\* whose append succeeded, and then removed with handleRemoveFood on the id
\* the working list showed for it, is gone from the user's remote log once
\* deleteLogEntry has returned, and no snapshot delivered after that shows it.
C30_RemoveReachesRemote ==
    \A r \in Removals :
        (r.stored /\ r.user # None /\ r.res = "ok") =>
            /\ \A e \in remote[r.user] : e.name \notin r.names
            /\ r.after # "shown"
====
